---- MODULE Spec2Model ----
(***************************************************************************)
(* Daily missing-data catalog (missing_gen.py).                            *)
(*                                                                         *)
(* analyze_netcdf_file turns one gridded file into a per-day record of     *)
(* missing points; create_daily_catalog walks the variable folders, maps   *)
(* the analysis over the files of each folder on a process pool and folds  *)
(* the results into one catalog.                                           *)
(*                                                                         *)
(* Conventions of the model:                                               *)
(*   - a float is a record [kind, num]: kind "nan" is not-a-number, kind   *)
(*     "num" carries an integer value; Python's None is [kind |-> "None"]; *)
(*   - a timestamp is a number of hours since the epoch, a date string     *)
(*     'YYYY-MM-DD' is the number of the day;                              *)
(*   - a percentage rounded to two decimals is kept in hundredths of a     *)
(*     percent (25.0 is 2500);                                             *)
(*   - a dict is a function, a list a sequence (indexed from 1, where      *)
(*     Python indexes from 0), a set a set.                                *)
(***************************************************************************)
EXTENDS Integers, Sequences, FiniteSets, TLC

VARIABLES
    fs,          \* the directory tree under base_path: folder name -> files
    catalog,     \* create_daily_catalog: the catalog being built
    pc,          \* create_daily_catalog: position of the driver
    var_idx,     \* create_daily_catalog: index of var_folder in the folder list
    nc_files,    \* create_daily_catalog: the files listed for the folder
    futures,     \* executor.map: per submitted file, done flag and value
    results,     \* create_daily_catalog: list(executor.map(...))
    result_idx,  \* create_daily_catalog: position of `for result in results`
    frame,       \* analyze_netcdf_file run step by step: its local variables
    tally        \* per file <<folder index, file index>>: times analysed, times
                 \* handed to the fold

vars == <<fs, catalog, pc, var_idx, nc_files, futures, results, result_idx,
          frame, tally>>

(***************************************************************************)
(* Bounds of the model.                                                    *)
(***************************************************************************)
NumGroups == 2
MaxFiles == 3
MaxResults == 3
MaxSlices == 2

(***************************************************************************)
(* Values.                                                                 *)
(***************************************************************************)
None == [kind |-> "None"]
NaN == [kind |-> "nan", num |-> 0]
Num(n) == [kind |-> "num", num |-> n]

Range(s) == {s[i] : i \in DOMAIN s}

EmptyDict == [k \in {} |-> 0]

\* a faulty d[key] = value: a key that d already holds keeps its value
dict_setMutKeep(d, key, value) ==
    [k \in DOMAIN d \cup {key} |-> IF k \in DOMAIN d THEN d[k] ELSE value]

\* d[key] = value
dict_set(d, key, value) ==
    [k \in DOMAIN d \cup {key} |-> IF k = key THEN value ELSE d[k]]

\* a faulty d.update(other): a key that d already holds keeps its value
dict_updateMutKeep(d, other) ==
    [k \in DOMAIN d \cup DOMAIN other |-> IF k \in DOMAIN d THEN d[k] ELSE other[k]]

\* d.update(other)
dict_update(d, other) ==
    [k \in DOMAIN d \cup DOMAIN other |-> IF k \in DOMAIN other THEN other[k] ELSE d[k]]

\* np.isnan on one element
np_isnan(x) == x.kind = "nan"

\* == on one element: IEEE equality, false whenever a side is not-a-number
float_eq(x, y) == x.kind = "num" /\ y.kind = "num" /\ x.num = y.num

(***************************************************************************)
(* analyze_netcdf_file                                                     *)
(***************************************************************************)
exclude_vars ==
    {"time", "lat", "lon", "x", "y", "Lambert_Conformal", "time_bnds", "nbnds"}

\* a faulty name: one name whatever the folder of the file
parent_nameMutFixed(file_path) == "air"

\* Path(file_path).parent.name
parent_name(file_path) == file_path.parent

\* xr.open_dataset(file_path): the dataset stored at that path
open_dataset(file_path) == fs[file_path.parent][file_path.name]

main_vars_ofMutAll(ds) == ds.variables

\* [v for v in ds.variables if v not in exclude_vars]
main_vars_of(ds) == SelectSeq(ds.variables, LAMBDA v : v.name \notin exclude_vars)

\* the fill value or missing value of the main variable, else None
fill_value_of(attrs) ==
    IF "_FillValue" \in DOMAIN attrs THEN attrs["_FillValue"]
    ELSE IF "missing_value" \in DOMAIN attrs THEN attrs["missing_value"]
    ELSE None

\* the positions of a time slice (y, x)
positions(time_slice) ==
    {<<y, x>> : y \in DOMAIN time_slice, x \in DOMAIN time_slice[1]}

missing_maskMutNoFill(time_slice, fill_value) ==
    [p \in positions(time_slice) |-> np_isnan(time_slice[p[1]][p[2]])]

\* missing_mask = np.isnan(time_slice); if fill_value is not None:
\* missing_mask |= (time_slice == fill_value)
missing_mask_of(time_slice, fill_value) ==
    LET isnan == [p \in positions(time_slice) |-> np_isnan(time_slice[p[1]][p[2]])]
    IN IF fill_value # None
       THEN [p \in positions(time_slice) |->
                isnan[p] \/ float_eq(time_slice[p[1]][p[2]], fill_value)]
       ELSE isnan

\* np.count_nonzero(missing_mask)
count_nonzero(mask) == Cardinality({p \in DOMAIN mask : mask[p]})

\* time_slice.size
size_of(time_slice) == Cardinality(positions(time_slice))

\* round(float(missing_count) / total_points * 100, 2), in hundredths of a
\* percent; round() rounds to nearest, a tie to the even neighbour
round_percentage(missing_count, total_points) ==
    LET n == missing_count * 10000
        q == n \div total_points
        r == n % total_points
    IN IF 2 * r < total_points THEN q
       ELSE IF 2 * r > total_points THEN q + 1
       ELSE IF q % 2 = 0 THEN q ELSE q + 1

\* pd.Timestamp(t).strftime('%Y-%m-%d'): the calendar day of the timestamp
strftime_date(t) == t \div 24

day_stats(missing_count, total_points) ==
    [missing_count |-> missing_count,
     total_points |-> total_points,
     missing_percentage |-> round_percentage(missing_count, total_points)]

records_entryMutZero(missing_count) == missing_count >= 0

\* if missing_count > 0
records_entry(missing_count) == missing_count > 0

\* One iteration of `for time_idx in range(data.shape[0])`. The state of the
\* loop is [raised, daily_stats, missing_mask]; raised is set when
\* ds.time.values[time_idx] is out of range (IndexError).
loop_body(ds, data, fill_value, time_idx, st) ==
    LET time_slice == data.values[time_idx]
        missing_mask == missing_mask_of(time_slice, fill_value)
        missing_count == count_nonzero(missing_mask)
        total_points == size_of(time_slice)
    IN IF records_entry(missing_count)
       THEN IF time_idx > Len(ds.time)
            THEN [raised |-> TRUE, daily_stats |-> st.daily_stats,
                  missing_mask |-> missing_mask]
            ELSE [raised |-> FALSE,
                  daily_stats |-> dict_set(st.daily_stats,
                                           strftime_date(ds.time[time_idx]),
                                           day_stats(missing_count, total_points)),
                  missing_mask |-> missing_mask]
       ELSE [raised |-> FALSE, daily_stats |-> st.daily_stats,
             missing_mask |-> missing_mask]

RECURSIVE time_loop(_, _, _, _, _)
time_loop(ds, data, fill_value, time_idx, st) ==
    IF st.raised \/ time_idx > data.shape[1] THEN st
    ELSE time_loop(ds, data, fill_value, time_idx + 1,
                   loop_body(ds, data, fill_value, time_idx, st))

loop_start == [raised |-> FALSE, daily_stats |-> EmptyDict, missing_mask |-> EmptyDict]

file_result(file_path, daily_stats) ==
    [variable |-> parent_name(file_path),
     filename |-> file_path.name,
     stats |-> daily_stats]

\* a faulty body: a main variable that does not have three axes is answered
\* with None
analyze_openedMutNone(ds, file_path) ==
    IF ~ds.openable THEN None
    ELSE LET main_vars == main_vars_of(ds) IN
    IF main_vars = <<>> THEN None
    ELSE LET data == main_vars[1]
             fill_value == fill_value_of(data.attrs)
         IN IF Len(data.shape) = 3
            THEN LET st == time_loop(ds, data, fill_value, 1, loop_start)
                 IN IF st.raised THEN None
                    ELSE file_result(file_path, st.daily_stats)
            ELSE None

\* The body of the function once open_dataset has answered with ds (or has
\* raised, ds.openable false): the value returned.
analyze_opened(ds, file_path) ==
    IF ~ds.openable THEN None                       \* open raises: except
    ELSE LET main_vars == main_vars_of(ds) IN
    IF main_vars = <<>> THEN None
    ELSE LET data == main_vars[1]
             fill_value == fill_value_of(data.attrs)
         IN IF Len(data.shape) = 3
            THEN LET st == time_loop(ds, data, fill_value, 1, loop_start)
                 IN IF st.raised THEN None           \* except
                    ELSE file_result(file_path, st.daily_stats)
            ELSE file_result(file_path, EmptyDict)

\* The whole function: the value it returns for the file at file_path.
analyze_netcdf_file(file_path) == analyze_opened(open_dataset(file_path), file_path)

(***************************************************************************)
(* create_daily_catalog                                                    *)
(***************************************************************************)
var_folders == <<"air", "hgt", "omega", "shum", "tke", "uwnd", "vwnd">>

empty_catalog ==
    [metadata |-> [created |-> "now", base_path |-> "base_path",
                   variables_processed |-> <<>>],
     variables |-> EmptyDict,
     daily_summary |-> EmptyDict]

\* a faulty test: a folder without files counts as missing
folder_existsMutNonEmpty(var_folder) ==
    var_folder \in DOMAIN fs /\ fs[var_folder] # <<>>

folder_existsMutAlways(var_folder) == TRUE

\* folder_path.exists()
folder_exists(var_folder) == var_folder \in DOMAIN fs

\* list(folder_path.glob('*.nc')): the files of the folder, in the order the
\* file system lists them; nothing for a path that is no directory
glob_nc(var_folder) ==
    IF var_folder \in DOMAIN fs
    THEN [i \in 1..Len(fs[var_folder]) |-> [parent |-> var_folder, name |-> i]]
    ELSE <<>>

new_summary == [total_missing |-> 0, variables_affected |-> {}, max_percentage |-> 0]

Max(a, b) == IF a >= b THEN a ELSE b

summary_updateMutNoAdd(summary, var_name, stats) ==
    [total_missing |-> summary.total_missing + stats.missing_count,
     variables_affected |-> summary.variables_affected,
     max_percentage |-> Max(summary.max_percentage, stats.missing_percentage)]

summary_updateMutLast(summary, var_name, stats) ==
    [total_missing |-> summary.total_missing + stats.missing_count,
     variables_affected |-> summary.variables_affected \cup {var_name},
     max_percentage |-> stats.missing_percentage]

\* the three updates of daily_summary[date] for one (date, stats)
summary_update(summary, var_name, stats) ==
    [total_missing |-> summary.total_missing + stats.missing_count,
     variables_affected |-> summary.variables_affected \cup {var_name},
     max_percentage |-> Max(summary.max_percentage, stats.missing_percentage)]

\* `for date, stats in daily_stats.items()`: the dates of one result are
\* distinct keys, so each date's summary is updated once
daily_summary_update(daily_summary, var_name, daily_stats) ==
    [date \in DOMAIN daily_summary \cup DOMAIN daily_stats |->
        IF date \in DOMAIN daily_stats
        THEN summary_update(IF date \in DOMAIN daily_summary
                            THEN daily_summary[date] ELSE new_summary,
                            var_name, daily_stats[date])
        ELSE daily_summary[date]]

foldMutAssign(cat, result) ==
    [cat EXCEPT
       !.variables = dict_set(cat.variables, result.variable, result.stats),
       !.daily_summary = daily_summary_update(cat.daily_summary, result.variable,
                                              result.stats)]

\* The body of `for result in results` for a result that is not None and
\* whose variable is a key of catalog["variables"].
fold(cat, result) ==
    LET var_name == result.variable
        daily_stats == result.stats
    IN [cat EXCEPT
          !.variables = dict_set(cat.variables, var_name,
                                 dict_update(cat.variables[var_name], daily_stats)),
          !.daily_summary = daily_summary_update(cat.daily_summary, var_name,
                                                 daily_stats)]

\* list(set) on each variables_affected: some order of the set's elements
Perms(S) == {s \in [1..Cardinality(S) -> S] : Range(s) = S}

(***************************************************************************)
(* The files of the runs explored.                                         *)
(***************************************************************************)
coord(name) == [name |-> name, attrs |-> EmptyDict, shape |-> <<1>>,
                values |-> <<Num(0)>>]

\* a variable of three axes (time, y, x) holding the given time slices
grid(name, attrs, ny, nx, slices) ==
    [name |-> name, attrs |-> attrs, shape |-> <<Len(slices), ny, nx>>,
     values |-> slices]

FillAttr == [a \in {"_FillValue"} |-> Num(-999)]

\* a file that cannot be opened
Unreadable == [openable |-> FALSE, variables |-> <<>>, time |-> <<>>]

\* a file holding coordinate variables only
CoordsOnly ==
    [openable |-> TRUE, variables |-> <<coord("time"), coord("lat"), coord("lon")>>,
     time |-> <<0>>]

\* day 0: one point of two is not-a-number
DsHalf ==
    [openable |-> TRUE,
     variables |-> <<coord("time"),
                     grid("air", EmptyDict, 1, 2, << << <<NaN, Num(1)>> >> >>)>>,
     time |-> <<0>>]

\* day 0 (at noon): both points missing, one by the fill value
DsFull ==
    [openable |-> TRUE,
     variables |-> <<grid("hgt", FillAttr, 1, 2, << << <<Num(-999), NaN>> >> >>),
                     coord("time")>>,
     time |-> <<12>>]

\* day 0 complete, day 1: one point of two missing
DsTwoDays ==
    [openable |-> TRUE,
     variables |-> <<coord("time"),
                     grid("air", EmptyDict, 1, 2,
                          << << <<Num(1), Num(2)>> >>, << <<NaN, Num(3)>> >> >>)>>,
     time |-> <<0, 24>>]

\* a variable of two axes
DsFlat ==
    [openable |-> TRUE,
     variables |-> <<coord("time"),
                     [name |-> "sfc", attrs |-> EmptyDict, shape |-> <<1, 2>>,
                      values |-> << <<NaN, Num(1)>> >>]>>,
     time |-> <<0>>]

RunDatasets == {Unreadable, CoordsOnly, DsHalf, DsFull, DsTwoDays, DsFlat}

\* s places files in folders: the folders in ascending order, the files of
\* one folder in the order the file system lists them
IsPlacement(s) == \A i \in 1..(Len(s) - 1) : s[i][1] <= s[i + 1][1]

FilesIn(s, g) ==
    LET own == SelectSeq(s, LAMBDA e : e[1] = g)
    IN [i \in 1..Len(own) |-> own[i][2]]

\* the tree in which the folders of E exist and hold the files placed by s
TreeOf(E, s) ==
    [f \in {var_folders[g] : g \in E} |->
        FilesIn(s, CHOOSE g \in E : var_folders[g] = f)]

NoFrame == [pc |-> "idle"]

\* nothing analysed, nothing handed to the fold
no_tally == [analysed |-> EmptyDict, folded |-> EmptyDict]

\* one more for the key
count_up(d, key) == dict_set(d, key, IF key \in DOMAIN d THEN d[key] + 1 ELSE 1)

(***************************************************************************)
(* The run of create_daily_catalog.                                        *)
(***************************************************************************)
\* The tree under base_path: any subset of the folders exists, and the
\* folders that exist hold up to MaxFiles files in all.
Init ==
    /\ \E E \in SUBSET (1..NumGroups) : \E n \in 0..MaxFiles :
          \E s \in [1..n -> (1..NumGroups) \X RunDatasets] :
              /\ IsPlacement(s)
              /\ {s[i][1] : i \in 1..n} \subseteq E
              /\ fs = TreeOf(E, s)
    /\ catalog = empty_catalog
    /\ pc = "for_var_folder"
    /\ var_idx = 1
    /\ nc_files = <<>>
    /\ futures = <<>>
    /\ results = <<>>
    /\ result_idx = 1
    /\ frame = NoFrame
    /\ tally = no_tally

\* if not folder_path.exists(): continue
SkipFolder ==
    /\ pc = "for_var_folder"
    /\ var_idx <= NumGroups
    /\ ~folder_exists(var_folders[var_idx])
    /\ var_idx' = var_idx + 1
    /\ UNCHANGED <<fs, catalog, pc, nc_files, futures, results, result_idx,
                   frame, tally>>

\* the folder exists: it is recorded, its files are listed and submitted
EnterFolder ==
    /\ pc = "for_var_folder"
    /\ var_idx <= NumGroups
    /\ folder_exists(var_folders[var_idx])
    /\ LET var_folder == var_folders[var_idx] IN
        /\ catalog' =
              [catalog EXCEPT
                 !.metadata.variables_processed = Append(@, var_folder),
                 !.variables = dict_set(@, var_folder, EmptyDict)]
        /\ nc_files' = glob_nc(var_folder)
        /\ futures' = [i \in 1..Len(glob_nc(var_folder)) |->
                          [done |-> FALSE, value |-> None]]
    /\ pc' = "map"
    /\ UNCHANGED <<fs, var_idx, results, result_idx, frame, tally>>

\* a worker of the pool returns the analysis of one submitted file
WorkerDone(i) ==
    /\ pc = "map"
    /\ i \in DOMAIN futures
    /\ ~futures[i].done
    /\ futures' = [futures EXCEPT
                     ![i] = [done |-> TRUE, value |-> analyze_netcdf_file(nc_files[i])]]
    /\ tally' = [tally EXCEPT !.analysed = count_up(@, <<var_idx, i>>)]
    /\ UNCHANGED <<fs, catalog, pc, var_idx, nc_files, results, result_idx,
                   frame>>

\* a faulty collection: the values in the order in which the workers
\* completed, which may be any order
CollectResultsMutAsCompleted ==
    /\ pc = "map"
    /\ \A i \in DOMAIN futures : futures[i].done
    /\ \E order \in Perms(DOMAIN futures) :
          results' = [k \in DOMAIN futures |-> futures[order[k]].value]
    /\ result_idx' = 1
    /\ pc' = "for_result"
    /\ UNCHANGED <<fs, catalog, var_idx, nc_files, futures, frame, tally>>

\* results = list(executor.map(...)): every value, in the order of nc_files
CollectResults ==
    /\ pc = "map"
    /\ \A i \in DOMAIN futures : futures[i].done
    /\ results' = [i \in DOMAIN futures |-> futures[i].value]
    /\ result_idx' = 1
    /\ pc' = "for_result"
    /\ UNCHANGED <<fs, catalog, var_idx, nc_files, futures, frame, tally>>

\* a faulty iteration: a result that is None ends the loop over results
FoldResultMutBreak ==
    /\ pc = "for_result"
    /\ result_idx <= Len(results)
    /\ LET result == results[result_idx] IN
        IF result = None
        THEN /\ result_idx' = Len(results) + 1
             /\ tally' = [tally EXCEPT !.folded = count_up(@, <<var_idx, result_idx>>)]
             /\ UNCHANGED <<catalog, pc>>
        ELSE IF result.variable \notin DOMAIN catalog.variables
        THEN /\ pc' = "KeyError"
             /\ UNCHANGED <<catalog, result_idx, tally>>
        ELSE /\ catalog' = fold(catalog, result)
             /\ result_idx' = result_idx + 1
             /\ tally' = [tally EXCEPT !.folded = count_up(@, <<var_idx, result_idx>>)]
             /\ UNCHANGED pc
    /\ UNCHANGED <<fs, var_idx, nc_files, futures, results, frame>>

\* one iteration of `for result in results`
FoldResult ==
    /\ pc = "for_result"
    /\ result_idx <= Len(results)
    /\ LET result == results[result_idx] IN
        IF result = None
        THEN /\ result_idx' = result_idx + 1
             /\ tally' = [tally EXCEPT !.folded = count_up(@, <<var_idx, result_idx>>)]
             /\ UNCHANGED <<catalog, pc>>
        ELSE IF result.variable \notin DOMAIN catalog.variables
        THEN /\ pc' = "KeyError"
             /\ UNCHANGED <<catalog, result_idx, tally>>
        ELSE /\ catalog' = fold(catalog, result)
             /\ result_idx' = result_idx + 1
             /\ tally' = [tally EXCEPT !.folded = count_up(@, <<var_idx, result_idx>>)]
             /\ UNCHANGED pc
    /\ UNCHANGED <<fs, var_idx, nc_files, futures, results, frame>>

\* a faulty end of the loop over results: the loop is left with results
\* still to fold
EndFolderMutEarly ==
    /\ pc = "for_result"
    /\ var_idx' = var_idx + 1
    /\ pc' = "for_var_folder"
    /\ UNCHANGED <<fs, catalog, nc_files, futures, results, result_idx,
                   frame, tally>>

\* the results of the folder are exhausted: next var_folder
EndFolder ==
    /\ pc = "for_result"
    /\ result_idx > Len(results)
    /\ var_idx' = var_idx + 1
    /\ pc' = "for_var_folder"
    /\ UNCHANGED <<fs, catalog, nc_files, futures, results, result_idx,
                   frame, tally>>

\* every variables_affected set becomes a list; return catalog
Finalize ==
    /\ pc = "for_var_folder"
    /\ var_idx > NumGroups
    /\ \E order \in [DOMAIN catalog.daily_summary ->
                        UNION {Perms(catalog.daily_summary[d].variables_affected) :
                                 d \in DOMAIN catalog.daily_summary}] :
          /\ \A d \in DOMAIN catalog.daily_summary :
                order[d] \in Perms(catalog.daily_summary[d].variables_affected)
          /\ catalog' =
                [catalog EXCEPT
                   !.daily_summary =
                      [d \in DOMAIN catalog.daily_summary |->
                          [catalog.daily_summary[d] EXCEPT
                              !.variables_affected = order[d]]]]
    /\ pc' = "return"
    /\ UNCHANGED <<fs, var_idx, nc_files, futures, results, result_idx,
                   frame, tally>>

Next ==
    \/ SkipFolder
    \/ EnterFolder
    \/ \E i \in DOMAIN futures : WorkerDone(i)
    \/ CollectResults
    \/ FoldResult
    \/ EndFolder
    \/ Finalize

Spec == Init /\ [][Next]_vars

\* the steps of the coordinating process
DriverStep ==
    SkipFolder \/ EnterFolder \/ CollectResults \/ FoldResult \/ EndFolder \/ Finalize

\* the position of the run: every step changes it
position == <<pc, var_idx, result_idx, futures>>

\* the files of the runs explored for termination: one that yields None,
\* one that yields an empty mapping, one that yields an entry
FairDatasets == {Unreadable, DsFlat, DsHalf}

\* the trees of Init that hold those files only
InitFair ==
    /\ Init
    /\ \A f \in DOMAIN fs : Range(fs[f]) \subseteq FairDatasets

\* The run when the operating system keeps scheduling the coordinating
\* process and every worker of the pool: a step that stays possible is
\* eventually taken.
FairSpec ==
    /\ InitFair
    /\ [][Next]_vars
    /\ WF_position(DriverStep)
    /\ \A i \in 1..MaxFiles : WF_position(WorkerDone(i))

(***************************************************************************)
(* The fold on its own: any list of results folded into a catalog that     *)
(* holds a key for every variable of the results.                          *)
(***************************************************************************)
FoldVariables == {var_folders[1], var_folders[2]}

FoldDayStats == {day_stats(1, 2), day_stats(2, 2)}

FoldStats == UNION {[D -> FoldDayStats] : D \in SUBSET {0, 1}}

FoldInputs ==
    {None} \cup {[variable |-> v, filename |-> 1, stats |-> st] :
                    v \in FoldVariables, st \in FoldStats}

InitFold ==
    /\ fs = EmptyDict
    /\ catalog = [empty_catalog EXCEPT
                    !.metadata.variables_processed = <<var_folders[1], var_folders[2]>>,
                    !.variables = [v \in FoldVariables |-> EmptyDict]]
    /\ pc = "for_result"
    /\ var_idx = 1
    /\ nc_files = <<>>
    /\ futures = <<>>
    /\ \E n \in 0..MaxResults : results \in [1..n -> FoldInputs]
    /\ result_idx = 1
    /\ frame = NoFrame
    /\ tally = no_tally

NextFold == FoldResult

SpecFold == InitFold /\ [][NextFold]_vars

(***************************************************************************)
(* analyze_netcdf_file step by step, over one file.                        *)
(***************************************************************************)
CellValues == {NaN, Num(-999), Num(1)}

\* the time slices of one row and two columns
Slices == {<<row>> : row \in [1..2 -> CellValues]}

AttrSets ==
    {EmptyDict,
     FillAttr,
     [a \in {"missing_value"} |-> Num(-999)],
     [a \in {"_FillValue", "missing_value"} |->
         IF a = "_FillValue" THEN Num(1) ELSE Num(-999)],
     [a \in {"_FillValue"} |-> NaN]}

Timestamps == {0, 12, 24}

\* a file of time slices of one row; the time coordinate has as many
\* values, or one less
GridDataset(attrs, slices, time) ==
    [openable |-> TRUE,
     variables |-> <<coord("time"), grid("air", attrs, 1, 2, slices)>>,
     time |-> time]

\* three days of a 2 x 2 grid, fill value -999: complete, one point
\* not-a-number, every point the fill value
DsThreeDays ==
    [openable |-> TRUE,
     variables |->
        <<coord("time"), coord("y"), coord("x"),
          grid("air", FillAttr, 2, 2,
               << << <<Num(1), Num(1)>>, <<Num(1), Num(1)>> >>,
                  << <<Num(1), NaN>>, <<Num(1), Num(1)>> >>,
                  << <<Num(-999), Num(-999)>>, <<Num(-999), Num(-999)>> >> >>)>>,
     time |-> <<0, 24, 48>>]

\* a 2 x 2 slice holding not-a-number, the fill value and plain values; a
\* second data variable follows the main one
DsMixed ==
    [openable |-> TRUE,
     variables |->
        <<coord("lat"),
          grid("air", FillAttr, 2, 2,
               << << <<NaN, Num(-999)>>, <<Num(1), Num(1)>> >> >>),
          grid("hgt", EmptyDict, 1, 2, << << <<NaN, NaN>> >> >>)>>,
     time |-> <<36>>]

\* the same slice without any fill attribute
DsMixedNoFill ==
    [openable |-> TRUE,
     variables |->
        <<grid("air", EmptyDict, 2, 2,
               << << <<NaN, Num(-999)>>, <<Num(1), Num(1)>> >> >>),
          coord("time")>>,
     time |-> <<36>>]

SpecialDatasets == RunDatasets \cup {DsThreeDays, DsMixed, DsMixedNoFill}

start_frame(file_path) ==
    [pc |-> "open", file_path |-> file_path, data |-> None, fill_value |-> None,
     time_idx |-> 1, time_slice |-> <<>>, missing_mask |-> EmptyDict,
     daily_stats |-> EmptyDict, ret |-> None]

\* One file in the first folder: a special dataset, or any grid dataset of up
\* to MaxSlices time slices.
InitAnalyze ==
    /\ \/ \E ds \in SpecialDatasets : fs = [f \in {var_folders[1]} |-> <<ds>>]
       \/ \E n \in 1..MaxSlices : \E attrs \in AttrSets : \E m \in {n - 1, n} :
             \E slices \in [1..n -> Slices] : \E time \in [1..m -> Timestamps] :
                 fs = [f \in {var_folders[1]} |-> <<GridDataset(attrs, slices, time)>>]
    /\ catalog = empty_catalog
    /\ pc = "map"
    /\ var_idx = 1
    /\ nc_files = <<[parent |-> var_folders[1], name |-> 1]>>
    /\ futures = <<[done |-> FALSE, value |-> None]>>
    /\ results = <<>>
    /\ result_idx = 1
    /\ frame = start_frame([parent |-> var_folders[1], name |-> 1])
    /\ tally = no_tally

\* open the dataset, pick the main variable and its fill value
AnalyzeOpen ==
    /\ frame.pc = "open"
    /\ LET ds == open_dataset(frame.file_path) IN
        IF ~ds.openable \/ main_vars_of(ds) = <<>>
        THEN frame' = [frame EXCEPT !.pc = "returned", !.ret = None]
        ELSE LET data == main_vars_of(ds)[1] IN
             frame' = [frame EXCEPT
                         !.pc = IF Len(data.shape) = 3 THEN "for_time_idx" ELSE "return",
                         !.data = data,
                         !.fill_value = fill_value_of(data.attrs)]
    /\ UNCHANGED <<fs, catalog, pc, var_idx, nc_files, futures, results, result_idx, tally>>

\* one iteration of the loop over time_idx
AnalyzeSlice ==
    /\ frame.pc = "for_time_idx"
    /\ frame.time_idx <= frame.data.shape[1]
    /\ LET st == loop_body(open_dataset(frame.file_path), frame.data,
                           frame.fill_value, frame.time_idx,
                           [raised |-> FALSE, daily_stats |-> frame.daily_stats,
                            missing_mask |-> frame.missing_mask])
       IN frame' = [frame EXCEPT
                      !.pc = IF st.raised THEN "returned" ELSE @,
                      !.time_slice = frame.data.values[frame.time_idx],
                      !.missing_mask = st.missing_mask,
                      !.daily_stats = st.daily_stats,
                      !.time_idx = IF st.raised THEN @ ELSE @ + 1]
    /\ UNCHANGED <<fs, catalog, pc, var_idx, nc_files, futures, results, result_idx, tally>>

\* return the result
AnalyzeReturn ==
    /\ \/ frame.pc = "return"
       \/ frame.pc = "for_time_idx" /\ frame.time_idx > frame.data.shape[1]
    /\ frame' = [frame EXCEPT
                   !.pc = "returned",
                   !.ret = file_result(frame.file_path, frame.daily_stats)]
    /\ UNCHANGED <<fs, catalog, pc, var_idx, nc_files, futures, results, result_idx, tally>>

NextAnalyze ==
    \/ AnalyzeOpen
    \/ AnalyzeSlice
    \/ AnalyzeReturn

SpecAnalyze == InitAnalyze /\ [][NextAnalyze]_vars

\* the function run step by step returns what analyze_netcdf_file returns
StepsAgree ==
    frame.pc = "returned" => frame.ret = analyze_netcdf_file(frame.file_path)

(***************************************************************************)
(* Properties of the run.                                                  *)
(***************************************************************************)
RECURSIVE SumOver(_, _)
\* the sum of f[x] over the x of S
SumOver(f, S) ==
    IF S = {} THEN 0
    ELSE LET x == CHOOSE y \in S : TRUE IN f[x] + SumOver(f, S \ {x})

RECURSIVE MaxOver(_, _)
\* the greatest f[x] over the x of S, 0 for no x
MaxOver(f, S) ==
    IF S = {} THEN 0
    ELSE LET x == CHOOSE y \in S : TRUE IN Max(f[x], MaxOver(f, S \ {x}))

\* the variables with an entry stored for the date
VariablesWith(date) ==
    {v \in DOMAIN catalog.variables : date \in DOMAIN catalog.variables[v]}

\* variables_affected as a set, before and after the conversion to a list
AffectedSet(date) ==
    IF pc = "return" THEN Range(catalog.daily_summary[date].variables_affected)
    ELSE catalog.daily_summary[date].variables_affected

\* the driver has folded something
Folding == pc = "for_result" /\ result_idx > 1

\* C1: for every date of daily_summary, total_missing is the sum of
\* missing_count over the entries variables[v][date] stored in the catalog.
C1_TotalIsStoredSum ==
    \A date \in DOMAIN catalog.daily_summary :
        catalog.daily_summary[date].total_missing =
            SumOver([v \in VariablesWith(date) |->
                        catalog.variables[v][date].missing_count],
                    VariablesWith(date))

\* C3: for every date of daily_summary, max_percentage is the maximum of
\* missing_percentage over the entries variables[v][date] stored in the catalog.
C3_MaxIsStoredMax ==
    \A date \in DOMAIN catalog.daily_summary :
        catalog.daily_summary[date].max_percentage =
            MaxOver([v \in VariablesWith(date) |->
                        catalog.variables[v][date].missing_percentage],
                    VariablesWith(date))

\* C4: for every date of daily_summary, variables_affected is exactly the set
\* of the variables that have an entry stored for that date.
C4_AffectedIsExact ==
    \A date \in DOMAIN catalog.daily_summary : AffectedSet(date) = VariablesWith(date)

\* C4 witness: after folds, a date affects two variables, one of which also
\* holds a date that the other does not.
C4_Witness ==
    /\ Folding
    /\ \E date \in DOMAIN catalog.daily_summary :
          /\ Cardinality(catalog.daily_summary[date].variables_affected) = 2
          /\ \E other \in DOMAIN catalog.daily_summary :
                Cardinality(catalog.daily_summary[other].variables_affected) = 1

\* the result the driver is about to fold is None or carries no date
FoldsNothing ==
    /\ pc = "for_result"
    /\ result_idx <= Len(results)
    /\ \/ results[result_idx] = None
       \/ results[result_idx].stats = EmptyDict

\* C6: folding a None result, or a result whose date-to-stats mapping is empty,
\* leaves variables, daily_summary and metadata unchanged.
C6_EmptyFoldUnchanged == [][FoldsNothing => catalog' = catalog]_vars

\* C6 witness: a None result and then an empty result have been folded into a
\* catalog that already holds entries.
C6_Witness ==
    /\ pc = "for_result"
    /\ result_idx = 3
    /\ results[1] = None
    /\ results[2] # None
    /\ results[2].stats = EmptyDict
    /\ catalog.daily_summary # EmptyDict

\* the variables of the dataset outside the excluded names
DataVariables(ds) ==
    {i \in DOMAIN ds.variables : ds.variables[i].name \notin exclude_vars}

\* the analysis of the dataset cannot succeed: it does not open, or it holds
\* no variable outside the excluded names
Fails(ds) == ~ds.openable \/ DataVariables(ds) = {}

\* the files of a folder without those whose analysis fails
RemoveFailing(tree) ==
    [f \in DOMAIN tree |-> SelectSeq(tree[f], LAMBDA ds : ~Fails(ds))]

RECURSIVE FoldFiles(_, _, _, _)
\* the files of one folder analysed and folded in listing order from index i
FoldFiles(cat, var_folder, files, i) ==
    IF i > Len(files) THEN cat
    ELSE LET result == analyze_opened(files[i], [parent |-> var_folder, name |-> i])
         IN FoldFiles(IF result = None THEN cat ELSE fold(cat, result),
                      var_folder, files, i + 1)

RECURSIVE RunCatalog(_, _, _)
\* the catalog of a run over the tree from folder index i on, before the
\* conversion of the sets
RunCatalog(cat, tree, i) ==
    IF i > NumGroups THEN cat
    ELSE IF var_folders[i] \notin DOMAIN tree THEN RunCatalog(cat, tree, i + 1)
    ELSE RunCatalog(
            FoldFiles([cat EXCEPT
                         !.metadata.variables_processed = Append(@, var_folders[i]),
                         !.variables = dict_set(@, var_folders[i], EmptyDict)],
                      var_folders[i], tree[var_folders[i]], 1),
            tree, i + 1)

\* every folder has been handled
AllFolded == pc = "return" \/ (pc = "for_var_folder" /\ var_idx > NumGroups)

\* the catalog with every variables_affected as a set
CatalogSets ==
    [catalog EXCEPT
       !.daily_summary = [d \in DOMAIN catalog.daily_summary |->
                             [catalog.daily_summary[d] EXCEPT
                                 !.variables_affected = AffectedSet(d)]]]

\* C7: a file whose analysis fails yields None and the driver never stops on
\* it; the catalog of the run is the catalog of the run over the same tree
\* without the failing files.
C7_FailedFileContributesNothing ==
    /\ pc # "KeyError"
    /\ pc \in {"map", "for_result"} =>
          \A i \in DOMAIN futures :
              (futures[i].done /\ Fails(open_dataset(nc_files[i])))
                  => futures[i].value = None
    /\ AllFolded => CatalogSets = RunCatalog(empty_catalog, RemoveFailing(fs), 1)

\* C7 witness: the run has returned; the first folder listed an unreadable
\* file, then a file with missing data, then a file without main variable,
\* and the first folder has entries.
C7_Witness ==
    /\ pc = "return"
    /\ var_folders[1] \in DOMAIN fs
    /\ Len(fs[var_folders[1]]) = 3
    /\ fs[var_folders[1]][1] = Unreadable
    /\ fs[var_folders[1]][3] = CoordsOnly
    /\ catalog.variables[var_folders[1]] # EmptyDict

\* C8: a folder that does not exist does not stop the run, is not listed in
\* variables_processed, has no key in variables, is in no variables_affected,
\* and the folders after it are still processed.
C8_MissingFolderSkipped ==
    /\ pc # "KeyError"
    /\ \A i \in 1..NumGroups :
          ~(var_folders[i] \in DOMAIN fs) =>
              /\ var_folders[i] \notin Range(catalog.metadata.variables_processed)
              /\ var_folders[i] \notin DOMAIN catalog.variables
              /\ \A date \in DOMAIN catalog.daily_summary :
                    var_folders[i] \notin AffectedSet(date)
    /\ \A i \in 1..NumGroups :
          (var_folders[i] \in DOMAIN fs /\ (AllFolded \/ var_idx > i)) =>
              /\ var_folders[i] \in Range(catalog.metadata.variables_processed)
              /\ var_folders[i] \in DOMAIN catalog.variables

\* C8 witness: the first folder is missing and the run has returned with
\* entries of the second.
C8_Witness ==
    /\ pc = "return"
    /\ var_folders[1] \notin DOMAIN fs
    /\ var_folders[2] \in DOMAIN fs
    /\ catalog.variables[var_folders[2]] # EmptyDict
    /\ catalog.metadata.variables_processed = <<var_folders[2]>>

\* a DayStats entry counts at least one missing point and no more than the
\* points of the slice
StatsInRange(stats) ==
    /\ 1 <= stats.missing_count
    /\ stats.missing_count <= stats.total_points

\* C9: every entry a file analysis returns, and every entry stored under
\* variables, has 1 <= missing_count <= total_points: a slice without missing
\* point leaves no entry.
C9_EntriesCountMissing ==
    /\ \A i \in DOMAIN futures :
          (futures[i].done /\ futures[i].value # None) =>
              \A date \in DOMAIN futures[i].value.stats :
                  StatsInRange(futures[i].value.stats[date])
    /\ \A v \in DOMAIN catalog.variables :
          \A date \in DOMAIN catalog.variables[v] :
              StatsInRange(catalog.variables[v][date])

\* C9 witness: a file whose first slice is complete and whose second slice
\* misses a point has been analysed and folded: only the second day is stored.
C9_Witness ==
    /\ Folding
    /\ nc_files # <<>>
    /\ open_dataset(nc_files[1]) = DsTwoDays
    /\ DOMAIN catalog.variables[nc_files[1].parent] = {1}

(***************************************************************************)
(* Properties of the fold on its own.                                      *)
(***************************************************************************)
\* the results of the list that carry an entry for the date
Carrying(date) ==
    {i \in DOMAIN results : results[i] # None /\ date \in DOMAIN results[i].stats}

CarryingFor(v, date) == {i \in Carrying(date) : results[i].variable = v}

AllDates == UNION {DOMAIN results[i].stats : i \in {j \in DOMAIN results : results[j] # None}}

\* no two results of the list carry the same variable and date
NoCollision ==
    \A date \in AllDates : \A v \in FoldVariables : Cardinality(CarryingFor(v, date)) <= 1

\* what the results add up to, whatever their order
UnionVariables ==
    [v \in FoldVariables |->
        [date \in {d \in AllDates : CarryingFor(v, d) # {}} |->
            results[CHOOSE i \in CarryingFor(v, date) : TRUE].stats[date]]]

UnionSummary ==
    [date \in AllDates |->
        [total_missing |->
            SumOver([i \in Carrying(date) |-> results[i].stats[date].missing_count],
                    Carrying(date)),
         variables_affected |-> {results[i].variable : i \in Carrying(date)},
         max_percentage |->
            MaxOver([i \in Carrying(date) |-> results[i].stats[date].missing_percentage],
                    Carrying(date))]]

AllResultsFolded == pc = "for_result" /\ result_idx > Len(results)

\* C2: results that do not collide on a variable and date fold to the same
\* catalog in every order: variables is the union of their entries, and each
\* date's summary the sum, the variable set and the maximum over them.
C2_OrderIndependent ==
    (AllResultsFolded /\ NoCollision) =>
        /\ catalog.variables = UnionVariables
        /\ catalog.daily_summary = UnionSummary

\* C2 witness: three results without collision have been folded; two
\* variables share a date, the greater percentage folded first.
C2_Witness ==
    /\ AllResultsFolded
    /\ NoCollision
    /\ Len(results) = 3
    /\ \A i \in 1..3 : results[i] # None /\ results[i].stats # EmptyDict
    /\ results[1].variable # results[2].variable
    /\ 0 \in DOMAIN results[1].stats \cap DOMAIN results[2].stats
    /\ results[1].stats[0].missing_percentage > results[2].stats[0].missing_percentage

\* C5: folding the same result a second time leaves the catalog as the first
\* fold left it.
C5_FoldTwiceIsFoldOnce ==
    [][(/\ pc = "for_result"
        /\ result_idx > 1
        /\ result_idx <= Len(results)
        /\ results[result_idx] = results[result_idx - 1])
          => catalog' = catalog]_vars

(***************************************************************************)
(* Properties of the file analysis.                                        *)
(***************************************************************************)
\* a mask has been computed for frame.time_slice
MaskComputed == frame.pc # "idle" /\ frame.time_slice # <<>>

\* C10: the mask of a time slice is true exactly where the value is
\* not-a-number or is the fill value; without fill value, exactly where the
\* value is not-a-number.
C10_MaskExact ==
    MaskComputed =>
        /\ DOMAIN frame.missing_mask = positions(frame.time_slice)
        /\ \A p \in positions(frame.time_slice) :
              LET value == frame.time_slice[p[1]][p[2]] IN
              /\ frame.missing_mask[p] <=> (value = NaN \/ value = frame.fill_value)
              /\ frame.fill_value = None => (frame.missing_mask[p] <=> value = NaN)

\* C10 witness: with fill value -999, a slice holding not-a-number, the fill
\* value and a plain value has its mask.
C10_Witness ==
    /\ MaskComputed
    /\ frame.fill_value = Num(-999)
    /\ {NaN, Num(-999), Num(1)} \subseteq
          {frame.time_slice[p[1]][p[2]] : p \in positions(frame.time_slice)}

(***************************************************************************)
(* Properties of the finalized catalog.                                    *)
(***************************************************************************)
\* the place of a variable name in ascending order of the names: the folder
\* list is written in ascending order
name_rank(v) == CHOOSE i \in DOMAIN var_folders : var_folders[i] = v

\* the sequence of names is strictly ascending, hence without duplicates
Ascending(names) ==
    \A i, j \in DOMAIN names : i < j => name_rank(names[i]) < name_rank(names[j])

\* C11: in the returned catalog every variables_affected is a sequence
\* without duplicates that holds exactly the variables of the set it was
\* converted from and lists them in ascending order of their names.
C11_AffectedListSorted ==
    pc = "return" =>
        \A date \in DOMAIN catalog.daily_summary :
            LET names == catalog.daily_summary[date].variables_affected IN
            /\ Cardinality(Range(names)) = Len(names)
            /\ Range(names) = VariablesWith(date)
            /\ Ascending(names)

(***************************************************************************)
(* Properties of the fold over the results of one variable.                *)
(***************************************************************************)
\* the results of the list that belong to the variable
ResultsOf(v) == {i \in DOMAIN results : results[i] # None /\ results[i].variable = v}

\* no two results of the variable carry the same date
DisjointDates(v) ==
    \A i, j \in ResultsOf(v) :
        i # j => DOMAIN results[i].stats \cap DOMAIN results[j].stats = {}

\* the dates carried by the results of the variable
DatesOf(v) == UNION {DOMAIN results[i].stats : i \in ResultsOf(v)}

\* C12: once the results of a variable whose date sets are pairwise disjoint
\* are folded, variables[variable] is exactly the union of their entries; for
\* each of its dates to which no other variable contributes, the summary's
\* total_missing is the entry's missing_count and variables_affected is the
\* variable alone.
C12_DisjointFilesUnion ==
    AllResultsFolded =>
        \A v \in FoldVariables :
            DisjointDates(v) =>
                /\ DOMAIN catalog.variables[v] = DatesOf(v)
                /\ \A i \in ResultsOf(v) : \A date \in DOMAIN results[i].stats :
                      /\ catalog.variables[v][date] = results[i].stats[date]
                      /\ Carrying(date) \subseteq ResultsOf(v) =>
                            /\ catalog.daily_summary[date].total_missing =
                                  results[i].stats[date].missing_count
                            /\ catalog.daily_summary[date].variables_affected = {v}

\* C12 witness: two results of the first variable with the dates 0 and 1
\* have been folded, the second one first in the list; the other variable
\* contributes to date 1 only.
C12_Witness ==
    /\ AllResultsFolded
    /\ Len(results) = 3
    /\ ResultsOf(var_folders[1]) = {1, 2}
    /\ DOMAIN results[1].stats = {1}
    /\ DOMAIN results[2].stats = {0}
    /\ results[3] # None
    /\ DOMAIN results[3].stats = {1}
    /\ catalog.daily_summary[0].variables_affected = {var_folders[1]}

\* the results already folded that carry the variable and the date
FoldedFor(v, date) == {i \in CarryingFor(v, date) : i < result_idx}

\* the greatest index of a non-empty set of indices
Latest(S) == CHOOSE i \in S : \A j \in S : j <= i

\* C13: when several folded results carry the same variable and date,
\* variables[variable][date] is the DayStats of the one folded last; the
\* counts of the earlier ones are not added to it.
C13_LaterResultReplaces ==
    \A v \in FoldVariables : \A date \in AllDates \cup DOMAIN catalog.variables[v] :
        IF FoldedFor(v, date) = {}
        THEN date \notin DOMAIN catalog.variables[v]
        ELSE catalog.variables[v][date] = results[Latest(FoldedFor(v, date))].stats[date]

\* C13 witness: two results of one variable and one date have been folded,
\* the first with 2 missing points, the second with 1, and the entry holds 1.
C13_Witness ==
    /\ pc = "for_result"
    /\ result_idx = 3
    /\ FoldedFor(var_folders[1], 0) = {1, 2}
    /\ results[1].stats[0].missing_count = 2
    /\ results[2].stats[0].missing_count = 1
    /\ catalog.variables[var_folders[1]][0].missing_count = 1

(***************************************************************************)
(* Properties of the mapping extracted from one file.                      *)
(***************************************************************************)
\* the analysis has returned a result for a main variable of three axes
ReturnedGrid ==
    /\ frame.pc = "returned"
    /\ frame.ret # None
    /\ Len(frame.data.shape) = 3

\* the number of points of the slice that are not-a-number or the fill value
MissingPoints(time_slice, fill_value) ==
    Cardinality({p \in positions(time_slice) :
                    LET value == time_slice[p[1]][p[2]]
                    IN value = NaN \/ (fill_value # None /\ value = fill_value)})

\* the time indexes of the file whose timestamp falls on the day and whose
\* slice has a missing point
MissingSlicesOn(day) ==
    LET ds == open_dataset(frame.file_path) IN
    {t \in 1..Len(frame.data.values) :
        /\ t <= Len(ds.time)
        /\ ds.time[t] \div 24 = day
        /\ MissingPoints(frame.data.values[t], frame.fill_value) > 0}

\* the days of the timestamps of the file
DaysOf(ds) == {ds.time[t] \div 24 : t \in DOMAIN ds.time}

\* C14: the mapping extracted from a file whose main variable has three axes
\* has an entry for a date exactly when a time slice of that date has a
\* missing point, and the entry counts the last such slice in time-index
\* order; the three-day 2 x 2 file with 0, 1 and 4 missing points yields no
\* entry for the first day, 1 of 4 (25.0) for the second and 4 of 4 (100.0)
\* for the third.
C14_EntryOfLastMissingSlice ==
    ReturnedGrid =>
        LET ds == open_dataset(frame.file_path)
            stats == frame.ret.stats
        IN /\ DOMAIN stats = {day \in DaysOf(ds) : MissingSlicesOn(day) # {}}
           /\ \A day \in DOMAIN stats :
                 LET time_slice == frame.data.values[Latest(MissingSlicesOn(day))] IN
                 /\ stats[day].missing_count = MissingPoints(time_slice, frame.fill_value)
                 /\ stats[day].total_points = Cardinality(positions(time_slice))
           /\ ds = DsThreeDays =>
                 stats = [day \in {1, 2} |->
                             IF day = 1
                             THEN [missing_count |-> 1, total_points |-> 4,
                                   missing_percentage |-> 2500]
                             ELSE [missing_count |-> 4, total_points |-> 4,
                                   missing_percentage |-> 10000]]

\* C14 witness: a file of two slices of the same day has returned; the first
\* slice has two missing points, the second one, and the entry counts one.
C14_Witness ==
    /\ ReturnedGrid
    /\ Len(frame.data.values) = 2
    /\ MissingSlicesOn(0) = {1, 2}
    /\ MissingPoints(frame.data.values[1], frame.fill_value) = 2
    /\ MissingPoints(frame.data.values[2], frame.fill_value) = 1
    /\ frame.ret.stats[0].missing_count = 1

(***************************************************************************)
(* Properties of the order in which the run handles folders and files.     *)
(***************************************************************************)
\* the files touched so far, each <<folder index, file index>>
Touched == DOMAIN tally.analysed \cup DOMAIN tally.folded

\* every file of the folder, if the folder exists, has been analysed and its
\* result handed to the fold
GroupDone(g) ==
    var_folders[g] \in DOMAIN fs =>
        \A i \in 1..Len(fs[var_folders[g]]) :
            <<g, i>> \in DOMAIN tally.analysed \cap DOMAIN tally.folded

\* C15: folders are processed strictly one after another: a file of a folder
\* is submitted, analysed or folded only when every file of every earlier
\* folder has been analysed and folded, and the files in analysis at any one
\* time all belong to the folder being processed.
C15_GroupsSequential ==
    /\ \A key \in Touched : \A g \in 1..(key[1] - 1) : GroupDone(g)
    /\ pc \in {"map", "for_result"} => \A g \in 1..(var_idx - 1) : GroupDone(g)
    /\ \A i \in DOMAIN futures :
          ~futures[i].done =>
              /\ pc = "map"
              /\ nc_files[i].parent = var_folders[var_idx]

\* C15 witness: two files of the second folder are in analysis, one has
\* completed and one has not, after the files of the first folder were folded.
C15_Witness ==
    /\ pc = "map"
    /\ var_idx = 2
    /\ \E i, j \in DOMAIN futures : futures[i].done /\ ~futures[j].done
    /\ <<1, 1>> \in DOMAIN tally.folded
    /\ catalog.variables[var_folders[1]] # EmptyDict

(***************************************************************************)
(* Properties of a file whose main variable is not a grid over time.       *)
(***************************************************************************)
\* the first variable of the dataset outside the excluded names
FirstData(ds) ==
    ds.variables[CHOOSE i \in DataVariables(ds) : \A j \in DataVariables(ds) : i <= j]

\* the file opens and its main variable does not have exactly three axes
NotThreeAxes(ds) == ~Fails(ds) /\ Len(FirstData(ds).shape) # 3

\* the driver is about to fold the result of such a file
FoldsFlatFile ==
    /\ pc = "for_result"
    /\ result_idx <= Len(results)
    /\ NotThreeAxes(open_dataset(nc_files[result_idx]))

\* C16: a file that opens and whose main variable does not have exactly
\* three axes yields a result that is not None and whose mapping is empty,
\* and folding that result raises nothing and leaves variables and
\* daily_summary as they were.
C16_FlatFileEmptyResult ==
    [][FoldsFlatFile =>
          /\ results[result_idx] # None
          /\ results[result_idx].stats = EmptyDict
          /\ pc' = "for_result"
          /\ catalog'.variables = catalog.variables
          /\ catalog'.daily_summary = catalog.daily_summary]_vars

\* C16 witness: the result of a file with a two-axis main variable, listed
\* after a file with missing data, has been folded.
C16_Witness ==
    /\ pc = "for_result"
    /\ result_idx = 3
    /\ NotThreeAxes(open_dataset(nc_files[2]))
    /\ results[2] # None
    /\ results[2].stats = EmptyDict
    /\ catalog.variables[var_folders[var_idx]] # EmptyDict
    /\ <<var_idx, 2>> \in DOMAIN tally.folded

(***************************************************************************)
(* Properties of the keys of the catalog.                                  *)
(***************************************************************************)
\* C17: every result of the list being folded that is not None carries the
\* name of the folder being processed, and that name is a key of
\* catalog.variables; the fold never fails on a missing key.
C17_FoldsUnderCurrentGroup ==
    /\ pc # "KeyError"
    /\ pc = "for_result" =>
          \A i \in DOMAIN results :
              results[i] # None =>
                  /\ results[i].variable = var_folders[var_idx]
                  /\ results[i].variable \in DOMAIN catalog.variables

\* C17 witness: a result of the second folder has been folded after results
\* of the first, and each folder's entries are under its own name.
C17_Witness ==
    /\ pc = "for_result"
    /\ var_idx = 2
    /\ result_idx = 2
    /\ results[1] # None
    /\ results[1].variable = var_folders[2]
    /\ var_folders[1] \in DOMAIN catalog.variables
    /\ catalog.variables[var_folders[1]] # EmptyDict
    /\ catalog.variables[var_folders[2]] # EmptyDict
    /\ catalog.variables[var_folders[1]] # catalog.variables[var_folders[2]]

\* the loop over folders has reached the folder: it is being processed or
\* has been
Reached(g) == g < var_idx \/ (g = var_idx /\ pc \in {"map", "for_result"})

RECURSIVE ProcessedUpTo(_)
\* the names of the first g folders of the list that exist and have been
\* reached, in the order of the list
ProcessedUpTo(g) ==
    IF g = 0 THEN <<>>
    ELSE IF var_folders[g] \in DOMAIN fs /\ Reached(g)
         THEN Append(ProcessedUpTo(g - 1), var_folders[g])
         ELSE ProcessedUpTo(g - 1)

\* C18: in every state variables_processed lists, in the order of the folder
\* list and once each, exactly the existing folders reached so far, and the
\* keys of catalog.variables are exactly those names; an existing folder is
\* listed whether or not it holds files and whatever its files yield.
C18_KeysAreProcessedFolders ==
    /\ catalog.metadata.variables_processed = ProcessedUpTo(NumGroups)
    /\ DOMAIN catalog.variables = Range(catalog.metadata.variables_processed)

\* C18 witness: the run has returned; the first folder exists and holds no
\* file, the second holds only files whose analysis fails, and both are
\* listed and have a key.
C18_Witness ==
    /\ pc = "return"
    /\ var_folders[1] \in DOMAIN fs
    /\ var_folders[2] \in DOMAIN fs
    /\ fs[var_folders[1]] = <<>>
    /\ fs[var_folders[2]] = <<Unreadable, CoordsOnly>>
    /\ catalog.metadata.variables_processed = <<var_folders[1], var_folders[2]>>
    /\ catalog.variables = [v \in {var_folders[1], var_folders[2]} |-> EmptyDict]

\* the files of the folder being processed whose result has been handed to
\* the fold
FoldedOfGroup == {key[2] : key \in {k \in DOMAIN tally.folded : k[1] = var_idx}}

\* C19: the results of a folder are folded in the order in which its files
\* were listed, whatever the order in which the workers completed, and none
\* is folded before every file of the folder has completed; the catalog of
\* the run is therefore the one of folding each folder's files in listing
\* order, under every interleaving of the workers, collisions included.
C19_FoldsInListingOrder ==
    /\ pc = "map" => FoldedOfGroup = {}
    /\ pc = "for_result" =>
          /\ \A i \in DOMAIN futures : futures[i].done
          /\ results = [i \in DOMAIN nc_files |-> analyze_netcdf_file(nc_files[i])]
          /\ FoldedOfGroup = 1..(result_idx - 1)
    /\ AllFolded => CatalogSets = RunCatalog(empty_catalog, fs, 1)

\* C19 witness: two files of the first folder carry the same date with
\* different counts; both results have been folded and the entry is the one
\* of the file listed second.
C19_Witness ==
    /\ pc = "for_result"
    /\ var_idx = 1
    /\ result_idx = 3
    /\ results[1] # None
    /\ results[2] # None
    /\ 0 \in DOMAIN results[1].stats \cap DOMAIN results[2].stats
    /\ results[1].stats[0] # results[2].stats[0]
    /\ catalog.variables[var_folders[1]][0] = results[2].stats[0]

(***************************************************************************)
(* Termination of the run.                                                 *)
(***************************************************************************)
\* the files of the existing folders, each <<folder index, file index>>
AllFiles ==
    {key \in (1..NumGroups) \X (1..MaxFiles) :
        /\ var_folders[key[1]] \in DOMAIN fs
        /\ key[2] <= Len(fs[var_folders[key[1]]])}

\* no file analysed twice, no result handed to the fold twice
AtMostOnce ==
    /\ \A key \in DOMAIN tally.analysed : tally.analysed[key] <= 1
    /\ \A key \in DOMAIN tally.folded : tally.folded[key] <= 1

\* the run has returned the catalog; every file of every existing folder has
\* been analysed once and its result handed to the fold once, and nothing
\* else has
Terminated ==
    /\ pc = "return"
    /\ DOMAIN tally.analysed = AllFiles
    /\ DOMAIN tally.folded = AllFiles
    /\ \A key \in AllFiles : tally.analysed[key] = 1 /\ tally.folded[key] = 1

\* C20: when the workers and the driver keep being scheduled, the run
\* eventually returns the finalized catalog; by then every file of every
\* existing folder has been analysed exactly once and its result, None or
\* not, handed to the fold exactly once; never is a file analysed twice or a
\* result folded twice.
C20_RunTerminates == []AtMostOnce /\ <>Terminated

\* C20 witness: the run has returned after three files in two folders, one
\* of which yielded None, each analysed once and folded once.
C20_Witness ==
    /\ Terminated
    /\ Cardinality(AllFiles) = 3
    /\ {key[1] : key \in AllFiles} = {1, 2}
    /\ \E key \in AllFiles : Fails(open_dataset([parent |-> var_folders[key[1]],
                                                 name |-> key[2]]))
    /\ catalog.daily_summary # EmptyDict

====
